---- MODULE Spec2Model ----
(***************************************************************************)
(* Realtime recruiter assistant: the realtime transcription service        *)
(* (OpenAIRealtimeWebRTCService), the recorder component that drives it    *)
(* (RealtimeInterviewRecorder) and the App that hosts the recorder: its     *)
(* stages, finalize, the action buttons and the Q&A sources.               *)
(*                                                                         *)
(* The specifications share the variables:                                 *)
(*   SpecAcc   the message handler of one service instance (frame parsing  *)
(*             and the transcript accumulator);                            *)
(*   SpecSvc   one service instance driven through its public methods      *)
(*             connect() and disconnect(), with the browser's events;      *)
(*   Spec      the App and the recorder, the service instances the         *)
(*             recorder creates, with the browser's events;                *)
(*   SpecFlow  Spec with at most MaxRecordings recordings started;         *)
(*   SpecResume  the frames of a recording started in a session that has   *)
(*             a transcript, and the App's realtimeTranscript;             *)
(*   SpecAct   executeAction with its cooldown, the clock, and the         *)
(*             buttons of the ActionButtonsPanel;                          *)
(*   SpecTick  SpecAct with two calls of executeAction in one tick;        *)
(*   SpecCite  the response of a chat request and the Sources list the     *)
(*             RagPanel renders from it.                                   *)
(***************************************************************************)
EXTENDS Integers, Sequences, FiniteSets, TLC

VARIABLES
    \* ---- one service instance: transcript accumulator ----
    finalText,        \* OpenAIRealtimeWebRTCService.finalText
    partialText,      \* OpenAIRealtimeWebRTCService.partialText
    emitted,          \* onTranscript(text, isFinal) calls delivered so far
    notified,         \* onFinalUtterance(utterance) calls delivered so far
    errorsAcc,        \* onError calls delivered by the message handler
    threw,            \* the last dataChannel.onmessage call threw
    log,              \* history: events the parser contract accepts
    lastClass,        \* history: class of the last inbound frame
    \* ---- service instances created by the recorder ----
    svc,              \* id -> service instance and the browser objects it made
    nsvc,             \* number of service instances constructed so far
    \* ---- RealtimeInterviewRecorder ----
    isRecording,      \* useState isRecording
    serviceRef,       \* useRef serviceRef (0 = null)
    stopPending,      \* stop() calls suspended inside onStopRecording
    \* ---- App ----
    currentUser,      \* a user is logged in
    session,          \* an interview session is active
    docs,             \* the session has a JD and a CV document
    transcriptNonEmpty, \* realtimeTranscript.trim() is non-empty
    activeStep,       \* useState activeStep
    recording,        \* useState recording
    mediaRecorderRef, \* mediaRecorderRef.current is set
    appAcquiring,     \* startRecording calls awaiting getUserMedia
    recStopping,      \* MediaRecorders stopped whose onstop has not fired
    audioBlob,        \* useState audioBlob is set
    diarizedTranscript, \* useState diarizedTranscript
    finalizing,       \* useState finalizing
    afterStop,        \* history: transcript callbacks since the last stop
    stopped,          \* history: recordings that stopped
    persisted,        \* history: calls of persistFinalTranscript
    \* ---- App: executeAction and the ActionButtonsPanel ----
    now,              \* Date.now()
    actionCooldownUntil, \* useState actionCooldownUntil
    actionLoading,    \* useState actionLoading
    actionError,      \* useState actionError
    isCoolingDown,    \* ActionButtonsPanel: isCoolingDown of the last render
    outstanding,      \* interviewAPI.executeAction calls not yet settled
    resetTimers,      \* due times of the pending window.setTimeout resets
    invocations,      \* history: the executeAction calls
    \* ---- App: handleRagAsk and the RagPanel ----
    ragResponse,      \* the interviewAPI.chat response in flight
    ragAnswer,        \* useState ragAnswer
    ragCitations,     \* useState ragCitations
    sources,          \* RagPanel: the rendered Sources list (labels)
    \* ---- App: error and output strings, the transcript's text ----
    sessionError,     \* useState sessionError
    actionOutput,     \* useState actionOutput
    realtimeTranscript, \* the text of realtimeTranscript (SpecResume)
    atStart           \* history: realtimeTranscript when the recording started

accVars == <<finalText, partialText, emitted, notified, errorsAcc, threw, log, lastClass>>
svcVars == <<svc, nsvc>>
recVars == <<isRecording, serviceRef, stopPending>>
appVars == <<currentUser, session, docs, transcriptNonEmpty, activeStep,
             recording, mediaRecorderRef, appAcquiring>>
finVars == <<recStopping, audioBlob, diarizedTranscript, finalizing>>
histVars == <<afterStop, stopped, persisted>>
actVars == <<now, actionCooldownUntil, actionLoading, actionError, isCoolingDown,
             outstanding, resetTimers, invocations>>
ragVars == <<ragResponse, ragAnswer, ragCitations, sources>>
uiVars == <<sessionError, actionOutput>>
txtVars == <<realtimeTranscript, atStart>>
vars == <<accVars, svcVars, recVars, appVars, finVars, histVars, actVars, ragVars,
          uiVars, txtVars>>

----------------------------------------------------------------------------
(* Bounds *)

\* accepted transcript events per run of the message handler
MaxEvents == 3
\* service instances the recorder constructs per run
MaxServices == 2
\* disconnect() calls on the service instance of SpecSvc
MaxDisconnects == 3
\* recordings started in the specification of the stage flow
MaxRecordings == 1
\* the clock of the action specification stops after MaxTicks half windows
MaxTicks == 5
\* executeAction calls in the action specification
MaxInvocations == 3
\* characters of an answer, citations of a response
MaxAnswerLen == 6
MaxCitations == 2

----------------------------------------------------------------------------
(* Strings are sequences of characters; NL is the line break. *)

NL == "NL"
Payloads == {<<"a">>, <<"b">>}

\* a JavaScript value of a message field: undefined, or a string
Undefined == [defined |-> FALSE, str |-> <<>>]
JsStr(s) == [defined |-> TRUE, str |-> s]
FieldValues == {Undefined, JsStr(<<>>)} \cup {JsStr(p) : p \in Payloads}

\* truthiness of a field value: undefined and '' are falsy
Truthy(v) == v.defined /\ v.str # <<>>
\* a || b
JsOr(a, b) == IF Truthy(a) THEN a ELSE b
\* v || ''
OrEmpty(v) == IF Truthy(v) THEN v.str ELSE <<>>

DeltaTypes == {"conversation.item.input_audio_transcription.delta",
               "input_audio_transcription.delta",
               "audio.input.transcription.delta",
               "transcription.delta"}
CompletedTypes == {"conversation.item.input_audio_transcription.completed",
                   "input_audio_transcription.completed",
                   "audio.input.transcription.completed",
                   "transcription.completed"}
\* other values of message.type: a keep-alive, and a message with no type
OtherTypes == {"ping", "undefined"}
MessageTypes == DeltaTypes \cup CompletedTypes \cup OtherTypes

\* An inbound frame: event.data is a string, an ArrayBuffer or something
\* else (a Blob); its text is JSON or not; the decoded message's fields.
Frames ==
    [raw : {"string", "arraybuffer"}, json : {TRUE}, type : MessageTypes,
     delta : FieldValues, text : FieldValues, transcript : FieldValues]
    \cup
    [raw : {"string", "arraybuffer"}, json : {FALSE}, type : {"undefined"},
     delta : {Undefined}, text : {Undefined}, transcript : {Undefined}]
    \cup
    [raw : {"blob"}, json : {FALSE}, type : {"undefined"},
     delta : {Undefined}, text : {Undefined}, transcript : {Undefined}]

----------------------------------------------------------------------------
(* The message handler, on the accumulator state                          *)
(*   st = [finalText, partialText, emitted, notified, errors, exc]        *)

AccState == [finalText |-> finalText, partialText |-> partialText,
             emitted |-> emitted, notified |-> notified,
             errors |-> errorsAcc, exc |-> FALSE]

\* HandleDelta with the delta replacing partialText instead of extending it
HandleDelta_Replace(st, m) ==
    LET delta == OrEmpty(JsOr(m.delta, m.text)) IN
    IF delta = <<>> THEN st
    ELSE [st EXCEPT !.partialText = delta,
                    !.emitted = Append(@, [text |-> st.finalText \o delta, isFinal |-> FALSE])]

\* the delta branch of handleMessage
HandleDelta(st, m) ==
    LET delta == OrEmpty(JsOr(m.delta, m.text)) IN
    IF delta = <<>> THEN st
    ELSE LET p == st.partialText \o delta IN
         [st EXCEPT !.partialText = p,
                    !.emitted = Append(@, [text |-> st.finalText \o p, isFinal |-> FALSE])]

\* HandleCompleted with the utterance overwriting finalText
HandleCompleted_Overwrite(st, m) ==
    LET transcript == OrEmpty(JsOr(m.transcript, m.text)) IN
    IF transcript = <<>> THEN st
    ELSE [st EXCEPT !.finalText = transcript,
                    !.partialText = <<>>,
                    !.notified = Append(@, transcript),
                    !.emitted = Append(@, [text |-> transcript, isFinal |-> TRUE])]

\* the completion branch of handleMessage
HandleCompleted(st, m) ==
    LET transcript == OrEmpty(JsOr(m.transcript, m.text)) IN
    IF transcript = <<>> THEN st
    ELSE LET f == IF st.finalText # <<>>
                  THEN st.finalText \o <<NL>> \o transcript
                  ELSE transcript IN
         [st EXCEPT !.finalText = f,
                    !.partialText = <<>>,
                    !.notified = Append(@, transcript),
                    !.emitted = Append(@, [text |-> f, isFinal |-> TRUE])]

handleMessage(st, m) ==
    IF m.type \in DeltaTypes THEN HandleDelta(st, m)
    ELSE IF m.type \in CompletedTypes THEN HandleCompleted(st, m)
    ELSE st

\* the body of the try block of dataChannel.onmessage: JSON.parse throws
\* on text that is not JSON
ParseAndHandle(st, f) ==
    IF f.raw \in {"string", "arraybuffer"}
    THEN IF f.json THEN handleMessage(st, f) ELSE [st EXCEPT !.exc = TRUE]
    ELSE st

\* onmessage without the try/catch around JSON.parse
onmessage_NoCatch(st, f) == ParseAndHandle(st, f)

\* dataChannel.onmessage: the catch block swallows the exception
onmessage(st, f) ==
    LET r == ParseAndHandle(st, f) IN
    IF r.exc THEN [r EXCEPT !.exc = FALSE] ELSE r

----------------------------------------------------------------------------
(* History of the frames, by the parser contract: which frames are        *)
(* transcript events, and their payload.                                  *)

FrameClass(f) ==
    IF f.raw = "blob" THEN "nontext"
    ELSE IF ~f.json THEN "nonjson"
    ELSE IF f.type \in DeltaTypes
         THEN (IF Truthy(f.delta) \/ Truthy(f.text) THEN "delta" ELSE "emptyDelta")
    ELSE IF f.type \in CompletedTypes
         THEN (IF Truthy(f.transcript) \/ Truthy(f.text) THEN "completion"
               ELSE "emptyCompletion")
    ELSE "unknownType"

IgnoredClasses == {"nontext", "nonjson", "emptyDelta", "emptyCompletion", "unknownType"}

EventOf(f) ==
    IF FrameClass(f) = "delta"
    THEN [kind |-> "delta", text |-> IF Truthy(f.delta) THEN f.delta.str ELSE f.text.str]
    ELSE [kind |-> "completion",
          text |-> IF Truthy(f.transcript) THEN f.transcript.str ELSE f.text.str]

----------------------------------------------------------------------------
(* Initial state: a constructed service, a mounted App *)

\* a slot of svc no service instance has been constructed in
NoService ==
    [step |-> "none", clientToken |-> FALSE,
     peerConnection |-> FALSE, dataChannel |-> FALSE, micStream |-> FALSE,
     pcState |-> "none", dcState |-> "none", micState |-> "none",
     tracksAttached |-> FALSE, posts |-> <<>>, remoteArg |-> "none",
     errors |-> 0, credFailed |-> FALSE, attached |-> FALSE,
     teardown |-> <<>>, discCalls |-> 0, midDisc |-> FALSE,
     trace |-> <<>>, disconnects |-> 0]

\* a constructed instance, connect() not called
IdleService == [NoService EXCEPT !.step = "idle"]

InitAcc ==
    /\ finalText = <<>>
    /\ partialText = <<>>
    /\ emitted = <<>>
    /\ notified = <<>>
    /\ errorsAcc = 0
    /\ threw = FALSE
    /\ log = <<>>
    /\ lastClass = "none"

\* the App's finalize, action and Q&A state before anything was done
InitFin ==
    /\ recStopping = 0
    /\ audioBlob = FALSE
    /\ diarizedTranscript = <<>>
    /\ finalizing = FALSE
    /\ afterStop = "none"
    /\ stopped = 0
    /\ persisted = 0

InitUi ==
    /\ sessionError = "null"
    /\ actionOutput = <<>>

\* the transcript's text is followed in SpecResume only; elsewhere
\* transcriptNonEmpty stands for it
InitTxt ==
    /\ realtimeTranscript = <<>>
    /\ atStart = <<>>

InitAction ==
    /\ now = 0
    /\ actionCooldownUntil = 0
    /\ actionLoading = FALSE
    /\ actionError = "null"
    /\ isCoolingDown = FALSE
    /\ outstanding = 0
    /\ resetTimers = <<>>
    /\ invocations = <<>>

\* no chat request in flight
NoResponse == [pending |-> FALSE, answer |-> Undefined, citations |-> <<>>]

InitRag ==
    /\ ragResponse = NoResponse
    /\ ragAnswer = <<>>
    /\ ragCitations = <<>>
    /\ sources = <<>>

InitLife ==
    /\ InitFin /\ InitUi /\ InitTxt /\ InitAction /\ InitRag
    /\ svc = [i \in 1..MaxServices |-> NoService]
    /\ nsvc = 0
    /\ isRecording = FALSE
    /\ serviceRef = 0
    /\ stopPending = 0
    /\ currentUser = FALSE
    /\ session = FALSE
    /\ docs = FALSE
    /\ transcriptNonEmpty = FALSE
    /\ activeStep = "setup"
    /\ recording = FALSE
    /\ mediaRecorderRef = FALSE
    /\ appAcquiring = 0

Init == InitAcc /\ InitLife

\* a service instance constructed by a caller other than the recorder: its
\* callbacks do not set the recorder's state
InitSvc ==
    /\ InitAcc
    /\ InitFin /\ InitUi /\ InitTxt /\ InitAction /\ InitRag
    /\ svc = [i \in 1..MaxServices |-> IF i = 1 THEN IdleService
                                         ELSE NoService]
    /\ nsvc = 1
    /\ isRecording = FALSE
    /\ serviceRef = 0
    /\ stopPending = 0
    /\ currentUser = FALSE
    /\ session = FALSE
    /\ docs = FALSE
    /\ transcriptNonEmpty = FALSE
    /\ activeStep = "setup"
    /\ recording = FALSE
    /\ mediaRecorderRef = FALSE
    /\ appAcquiring = 0

----------------------------------------------------------------------------
(* SpecAcc: frames arriving on the data channel of one service *)

\* the frame f handled by the instance's onmessage
Handled(f) ==
    /\ Len(emitted) < MaxEvents
    /\ LET r == onmessage(AccState, f) IN
         /\ finalText' = r.finalText
         /\ partialText' = r.partialText
         /\ emitted' = r.emitted
         /\ notified' = r.notified
         /\ errorsAcc' = r.errors
         /\ threw' = r.exc
    /\ lastClass' = FrameClass(f)
    /\ log' = IF FrameClass(f) \in IgnoredClasses THEN log ELSE Append(log, EventOf(f))

OnMessage(f) ==
    /\ Handled(f)
    /\ UNCHANGED <<svcVars, recVars, appVars, finVars, histVars, actVars, ragVars,
                   uiVars, txtVars>>

NextAcc == \E f \in Frames : OnMessage(f)

SpecAcc == Init /\ [][NextAcc]_vars

----------------------------------------------------------------------------
(* The service instance: connect() and disconnect()                       *)
(*                                                                         *)
(* step is idle before connect(), then the await point connect() is        *)
(* suspended at:                                                           *)
(*   cred    fetch of /api/realtime/session (createRealtimeSession)        *)
(*   gum     navigator.mediaDevices.getUserMedia                           *)
(*   offer   peerConnection.createOffer                                    *)
(*   local   peerConnection.setLocalDescription                            *)
(*   post1   postSdp without the beta header                               *)
(*   post2   postSdp with the beta header                                  *)
(*   remote  peerConnection.setRemoteDescription                           *)
(* or how it settled: resolved, rejected.                                  *)
(* peerConnection, dataChannel, micStream: the field is not null.          *)
(* pcState, dcState, micState: the browser object the instance created.    *)
(* trace: the negotiation steps connect() has begun, in order.             *)
(* disconnects: how many times the instance has called onDisconnect.       *)

AwaitSteps == {"cred", "gum", "offer", "local", "post1", "post2", "remote"}
SettledSteps == {"resolved", "rejected"}

\* outcomes of one postSdp call: the answer text of a 2xx response; '' for
\* a non-2xx response or a 2xx response with an empty body; the fetch threw
PostOutcomes == {"answer", "empty", "throw"}

Services == 1..MaxServices
Created == 1..nsvc

\* connect() up to its first await: the credential fetch is sent
connect(s) == [s EXCEPT !.step = "cred", !.trace = Append(@, "credential")]

\* the instance start() constructs and connects; its callbacks set the
\* state of the mounted recorder
NewService == connect([IdleService EXCEPT !.attached = TRUE])

\* the catch block of connect() rethrowing without onError
connectCatch_Silent(s) ==
    [s EXCEPT !.step = "rejected"]

\* the catch block of connect(): onError, then rethrow
connectCatch(s) ==
    [s EXCEPT !.step = "rejected", !.errors = @ + 1]

\* createWebRTCConnection up to its first await: the token check, the peer
\* connection, the data channel and its handlers, the getUserMedia call
createWebRTCConnection(s) ==
    IF ~s.clientToken
    THEN connectCatch(s)
    ELSE [s EXCEPT !.peerConnection = TRUE, !.pcState = "open",
                   !.dataChannel = TRUE, !.dcState = "connecting",
                   !.step = "gum",
                   !.trace = @ \o <<"transport", "channel", "microphone">>]

\* the continuation creating the offer before it adds the tracks
afterGetUserMedia_OfferFirst(s) ==
    LET t == [s EXCEPT !.micStream = TRUE, !.micState = "live",
                       !.tracksAttached = s.peerConnection] IN
    IF t.peerConnection
    THEN [t EXCEPT !.step = "offer", !.trace = @ \o <<"offer", "tracks">>]
    ELSE connectCatch(t)

\* createWebRTCConnection after getUserMedia resolved: the stream is kept,
\* its tracks are added when the peer connection field is set, createOffer
\* is called on the field (a TypeError when it is null)
afterGetUserMedia(s) ==
    LET t == [s EXCEPT !.micStream = TRUE, !.micState = "live",
                       !.tracksAttached = s.peerConnection] IN
    IF t.peerConnection
    THEN [t EXCEPT !.step = "offer", !.trace = @ \o <<"tracks", "offer">>]
    ELSE connectCatch(t)

\* the call peerConnection.setRemoteDescription({type: 'answer', sdp}):
\* a TypeError when the field is null
callSetRemoteDescription(s, arg) ==
    IF ~s.peerConnection
    THEN connectCatch(s)
    ELSE [s EXCEPT !.remoteArg = arg, !.step = "remote",
                   !.trace = Append(@, "setRemoteDescription")]

\* the onclose handler of the data channel: onDisconnect
onclose(s) == [s EXCEPT !.dcState = "closed", !.disconnects = @ + 1]

\* RTCDataChannel.close(): a channel that is not closed starts closing
closeChannel(st) == IF st \in {"connecting", "open"} THEN "closing" ELSE st

\* disconnect() stopping the tracks before closing channel and transport
disconnect_TracksFirst(s) ==
    [s EXCEPT
       !.dcState = IF s.dataChannel THEN closeChannel(@) ELSE @,
       !.pcState = IF s.peerConnection THEN "closed" ELSE @,
       !.micState = IF s.micStream THEN "stopped" ELSE @,
       !.dataChannel = FALSE,
       !.peerConnection = FALSE,
       !.micStream = FALSE,
       !.teardown = (IF s.micStream THEN <<"tracks">> ELSE <<>>)
                    \o (IF s.dataChannel THEN <<"channel">> ELSE <<>>)
                    \o (IF s.peerConnection THEN <<"transport">> ELSE <<>>),
       !.discCalls = @ + 1,
       !.disconnects = @ + 1,
       !.midDisc = @ \/ s.step \in AwaitSteps]

\* disconnect() without the finally block that clears the fields
disconnect_NoFinally(s) ==
    [s EXCEPT
       !.dcState = IF s.dataChannel THEN closeChannel(@) ELSE @,
       !.pcState = IF s.peerConnection THEN "closed" ELSE @,
       !.micState = IF s.micStream THEN "stopped" ELSE @,
       !.teardown = (IF s.dataChannel THEN <<"channel">> ELSE <<>>)
                    \o (IF s.peerConnection THEN <<"transport">> ELSE <<>>)
                    \o (IF s.micStream THEN <<"tracks">> ELSE <<>>),
       !.discCalls = @ + 1,
       !.disconnects = @ + 1,
       !.midDisc = @ \/ s.step \in AwaitSteps]

\* disconnect(): the try block closes what the fields refer to, the finally
\* block clears the fields and calls onDisconnect (what the recorder's
\* callback does is in the caller action)
disconnect(s) ==
    [s EXCEPT
       !.dcState = IF s.dataChannel THEN closeChannel(@) ELSE @,
       !.pcState = IF s.peerConnection THEN "closed" ELSE @,
       !.micState = IF s.micStream THEN "stopped" ELSE @,
       !.dataChannel = FALSE,
       !.peerConnection = FALSE,
       !.micStream = FALSE,
       !.teardown = (IF s.dataChannel THEN <<"channel">> ELSE <<>>)
                    \o (IF s.peerConnection THEN <<"transport">> ELSE <<>>)
                    \o (IF s.micStream THEN <<"tracks">> ELSE <<>>),
       !.discCalls = @ + 1,
       !.disconnects = @ + 1,
       !.midDisc = @ \/ s.step \in AwaitSteps]

----------------------------------------------------------------------------
(* App: the stage and what mounts the recorder *)

hasDocsReady == currentUser /\ session /\ docs

hasRecordingData == transcriptNonEmpty

hasFinalized == diarizedTranscript # <<>>

AutoStep_RecordFirst(finalized, recordingData, docsReady) ==
    IF recordingData THEN "record"
    ELSE IF finalized THEN "finalize"
    ELSE IF docsReady THEN "record"
    ELSE "setup"

\* the body of the auto-advance effect
AutoStep(finalized, recordingData, docsReady) ==
    IF finalized THEN "finalize"
    ELSE IF recordingData THEN "record"
    ELSE IF docsReady THEN "record"
    ELSE "setup"

\* The auto-advance effect after a render: it runs when one of its
\* dependencies has changed and then overrides the step the handler set.
Effect(step, finalized, recordingData, docsReady) ==
    IF <<finalized, recordingData, docsReady>>
         # <<hasFinalized, hasRecordingData, hasDocsReady>>
    THEN AutoStep(finalized, recordingData, docsReady)
    ELSE step

StepStatus_LaterStages(id) ==
    IF id = "setup" THEN (IF hasDocsReady THEN "complete" ELSE "current")
    ELSE IF id = "record"
         THEN (IF hasRecordingData THEN "complete"
               ELSE IF hasDocsReady \/ hasFinalized THEN "current" ELSE "upcoming")
    ELSE (IF hasFinalized THEN "complete" ELSE "upcoming")

\* status of the step bar entries
StepStatus(id) ==
    IF id = "setup" THEN (IF hasDocsReady THEN "complete" ELSE "current")
    ELSE IF id = "record"
         THEN (IF hasRecordingData THEN "complete"
               ELSE IF hasDocsReady THEN "current" ELSE "upcoming")
    ELSE (IF hasFinalized THEN "complete"
          ELSE IF hasRecordingData THEN "current" ELSE "upcoming")

\* the recorder is rendered: the record step with a session
Mounted(step, sess) == currentUser /\ sess /\ step = "record"

\* The recorder's state after the App renders with the given step: an
\* unmounted recorder loses its state, and the callbacks of the services it
\* created no longer reach a mounted component.
Render(step, sess, rec, ref, s) ==
    IF Mounted(step, sess)
    THEN /\ isRecording' = rec
         /\ serviceRef' = ref
         /\ svc' = s
    ELSE /\ isRecording' = FALSE
         /\ serviceRef' = 0
         /\ svc' = [i \in Services |-> [s[i] EXCEPT !.attached = FALSE]]

\* setIsRecording(v) from a callback of service i
SetIsRecordingFrom(s, i, v) == IF s[i].attached THEN v ELSE isRecording

----------------------------------------------------------------------------
(* Spec: actions *)

\* handleLogin
HandleLogin ==
    /\ ~currentUser
    /\ currentUser' = TRUE
    /\ UNCHANGED <<accVars, uiVars, txtVars, actVars, ragVars, finVars, histVars, svcVars, recVars, session, docs, transcriptNonEmpty,
                   activeStep, recording, mediaRecorderRef, appAcquiring>>

\* handleCreateSession: a new session has no documents and no transcript;
\* the action and Q&A state is reset
HandleCreateSession ==
    /\ currentUser /\ ~session /\ activeStep = "setup"
    /\ session' = TRUE
    /\ docs' = FALSE
    /\ transcriptNonEmpty' = FALSE
    /\ activeStep' = Effect(activeStep, hasFinalized, FALSE, FALSE)
    /\ actionError' = "null"
    /\ actionCooldownUntil' = 0
    /\ isCoolingDown' = FALSE
    /\ ragAnswer' = <<>>
    /\ ragCitations' = <<>>
    /\ sources' = <<>>
    /\ UNCHANGED ragResponse
    /\ sessionError' = "null"
    /\ actionOutput' = <<>>
    /\ UNCHANGED <<accVars, txtVars, finVars, histVars, svcVars, recVars, currentUser,
                   recording, mediaRecorderRef, appAcquiring,
                   now, actionLoading, outstanding, resetTimers, invocations>>

\* handleUploadBoth: the refreshed session has a JD and a CV; the
\* auto-advance effect runs when hasDocsReady changes
HandleUploadBoth ==
    /\ currentUser /\ session /\ activeStep = "setup"
    /\ docs' = TRUE
    /\ LET step == Effect(activeStep, hasFinalized, hasRecordingData, TRUE) IN
         /\ activeStep' = step
         /\ Render(step, session, isRecording, serviceRef, svc)
    /\ sessionError' = "null"
    /\ UNCHANGED actionOutput
    /\ UNCHANGED <<accVars, txtVars, actVars, ragVars, finVars, histVars, nsvc, stopPending, currentUser, session,
                   transcriptNonEmpty, recording, mediaRecorderRef, appAcquiring>>

\* a click on an enabled entry of the step bar
SelectStep(id) ==
    /\ currentUser
    /\ StepStatus(id) # "upcoming"
    /\ activeStep # id
    /\ activeStep' = id
    /\ Render(id, session, isRecording, serviceRef, svc)
    /\ UNCHANGED <<accVars, uiVars, txtVars, actVars, ragVars, finVars, histVars, nsvc, stopPending, currentUser, session, docs,
                   transcriptNonEmpty, recording, mediaRecorderRef, appAcquiring>>

\* start(): onStartRecording (App.startRecording up to its getUserMedia),
\* a new service in serviceRef, connect() up to the credential fetch
StartRecorder(max) ==
    /\ Mounted(activeStep, session)
    /\ ~isRecording
    /\ nsvc < max
    /\ appAcquiring' = IF session /\ ~recording THEN appAcquiring + 1 ELSE appAcquiring
    /\ nsvc' = nsvc + 1
    /\ svc' = [svc EXCEPT ![nsvc + 1] = NewService]
    /\ serviceRef' = nsvc + 1
    /\ afterStop' = "none"
    /\ sessionError' = IF session /\ ~recording THEN "null" ELSE sessionError
    /\ UNCHANGED actionOutput
    /\ UNCHANGED <<accVars, txtVars, actVars, ragVars, finVars, stopped, persisted,
                   isRecording, stopPending, currentUser, session, docs,
                   transcriptNonEmpty, activeStep, recording, mediaRecorderRef>>

StartClick == StartRecorder(MaxServices)

\* a click on start in the specification of the stage flow
FlowStartClick == StartRecorder(MaxRecordings)

\* App.startRecording after getUserMedia resolved
AppMicGranted ==
    /\ appAcquiring > 0
    /\ appAcquiring' = appAcquiring - 1
    /\ mediaRecorderRef' = TRUE
    /\ recording' = TRUE
    /\ UNCHANGED <<accVars, uiVars, txtVars, actVars, ragVars, finVars, histVars, svcVars, recVars, currentUser, session, docs,
                   transcriptNonEmpty, activeStep>>

\* App.startRecording when getUserMedia rejected
AppMicDenied ==
    /\ appAcquiring > 0
    /\ appAcquiring' = appAcquiring - 1
    /\ UNCHANGED <<accVars, uiVars, txtVars, actVars, ragVars, finVars, histVars, svcVars, recVars, currentUser, session, docs,
                   transcriptNonEmpty, activeStep, recording, mediaRecorderRef>>

LifeUnchanged == UNCHANGED <<accVars, uiVars, txtVars, actVars, ragVars, finVars, histVars, nsvc, recVars, appVars>>

\* createRealtimeSession resolved with a token; createWebRTCConnection starts
CredOk(i) ==
    /\ svc[i].step = "cred"
    /\ svc' = [svc EXCEPT ![i] = createWebRTCConnection([@ EXCEPT !.clientToken = TRUE])]
    /\ LifeUnchanged

\* createRealtimeSession resolved with a response that has no client_token
CredNoToken(i) ==
    /\ svc[i].step = "cred"
    /\ svc' = [svc EXCEPT ![i] = createWebRTCConnection(@)]
    /\ LifeUnchanged

\* the credential fetch failed: network error or non-2xx response
CredFail(i) ==
    /\ svc[i].step = "cred"
    /\ svc' = [svc EXCEPT ![i] = connectCatch([@ EXCEPT !.credFailed = TRUE])]
    /\ LifeUnchanged

\* getUserMedia resolved: the tracks are added when the peer connection
\* field is set; createOffer is called on the field
GumOk(i) ==
    /\ svc[i].step = "gum"
    /\ svc' = [svc EXCEPT ![i] = afterGetUserMedia(@)]
    /\ LifeUnchanged

GumFail(i) ==
    /\ svc[i].step = "gum"
    /\ svc' = [svc EXCEPT ![i] = connectCatch(@)]
    /\ LifeUnchanged

\* createOffer resolved; setLocalDescription is called on the field
OfferOk(i) ==
    /\ svc[i].step = "offer"
    /\ svc[i].pcState = "open"
    /\ svc' = [svc EXCEPT ![i] = [@ EXCEPT !.step = "local",
                                           !.trace = Append(@, "setLocalDescription")]]
    /\ LifeUnchanged

\* createOffer rejected, or the field was null when it resolved
OfferFail(i) ==
    /\ svc[i].step = "offer"
    /\ svc' = [svc EXCEPT ![i] = connectCatch(@)]
    /\ LifeUnchanged

\* setLocalDescription resolved; the first postSdp sends its fetch
LocalOk(i) ==
    /\ svc[i].step = "local"
    /\ svc[i].pcState = "open"
    /\ svc' = [svc EXCEPT ![i] = [@ EXCEPT !.step = "post1",
                                           !.trace = Append(@, "post")]]
    /\ LifeUnchanged

LocalFail(i) ==
    /\ svc[i].step = "local"
    /\ svc' = [svc EXCEPT ![i] = connectCatch(@)]
    /\ LifeUnchanged

\* the first postSdp settled
Post1(i, o) ==
    /\ svc[i].step = "post1"
    /\ LET s == [svc[i] EXCEPT !.posts = Append(@, [beta |-> FALSE, outcome |-> o])] IN
       svc' = [svc EXCEPT ![i] =
                 IF o = "throw" THEN connectCatch(s)
                 ELSE IF o = "answer" THEN callSetRemoteDescription(s, "answer")
                 ELSE [s EXCEPT !.step = "post2", !.trace = Append(@, "post")]]
    /\ LifeUnchanged

\* the second postSdp settled: its result goes to setRemoteDescription
Post2(i, o) ==
    /\ svc[i].step = "post2"
    /\ LET s == [svc[i] EXCEPT !.posts = Append(@, [beta |-> TRUE, outcome |-> o])] IN
       svc' = [svc EXCEPT ![i] =
                 IF o = "throw" THEN connectCatch(s)
                 ELSE IF o = "answer" THEN callSetRemoteDescription(s, "answer")
                 ELSE callSetRemoteDescription(s, "empty")]
    /\ LifeUnchanged

\* setRemoteDescription resolved: connect() resolves, start() continues with
\* setIsRecording(true)
RemoteOk(i) ==
    /\ svc[i].step = "remote"
    /\ svc[i].remoteArg = "answer"
    /\ svc[i].pcState = "open"
    /\ svc' = [svc EXCEPT ![i] = [@ EXCEPT !.step = "resolved"]]
    /\ isRecording' = SetIsRecordingFrom(svc, i, TRUE)
    /\ UNCHANGED <<accVars, uiVars, txtVars, actVars, ragVars, finVars, histVars, nsvc, serviceRef, stopPending, appVars>>

\* setRemoteDescription rejected (always, for an empty description or a
\* closed connection)
RemoteFail(i) ==
    /\ svc[i].step = "remote"
    /\ svc' = [svc EXCEPT ![i] = connectCatch(@)]
    /\ LifeUnchanged

\* the data channel opens once the answer is applied: onopen, onConnect
DcOpen(i) ==
    /\ svc[i].dcState = "connecting"
    /\ svc[i].pcState = "open"
    /\ svc[i].step = "resolved"
    /\ svc' = [svc EXCEPT ![i] = [@ EXCEPT !.dcState = "open"]]
    /\ LifeUnchanged

\* the remote side closes the open channel: onclose, onDisconnect
DcRemoteClose(i) ==
    /\ svc[i].dcState = "open"
    /\ svc' = [svc EXCEPT ![i] = onclose(@)]
    /\ isRecording' = SetIsRecordingFrom(svc, i, FALSE)
    /\ stopped' = IF isRecording /\ svc[i].attached THEN stopped + 1 ELSE stopped
    /\ UNCHANGED <<accVars, uiVars, txtVars, actVars, ragVars, finVars, afterStop, persisted,
                   nsvc, serviceRef, stopPending, appVars>>

\* the close event of a channel closed by disconnect(): onclose, onDisconnect
DcCloseEvent(i) ==
    /\ svc[i].dcState = "closing"
    /\ svc' = [svc EXCEPT ![i] = onclose(@)]
    /\ isRecording' = SetIsRecordingFrom(svc, i, FALSE)
    /\ stopped' = IF isRecording /\ svc[i].attached THEN stopped + 1 ELSE stopped
    /\ UNCHANGED <<accVars, uiVars, txtVars, actVars, ragVars, finVars, afterStop, persisted,
                   nsvc, serviceRef, stopPending, appVars>>

\* a transcript event on an open channel: onTranscriptUpdate sets a
\* non-empty realtimeTranscript; the auto-advance effect runs when
\* hasRecordingData changes
TranscriptEvent(i) ==
    /\ svc[i].dcState = "open"
    /\ transcriptNonEmpty' = TRUE
    /\ LET step == Effect(activeStep, hasFinalized, TRUE, hasDocsReady) IN
         /\ activeStep' = step
         /\ Render(step, session, isRecording, serviceRef, svc)
    /\ afterStop' = IF afterStop = "stopped" THEN "late" ELSE afterStop
    /\ UNCHANGED <<accVars, uiVars, txtVars, actVars, ragVars, finVars, stopped, persisted,
                   nsvc, stopPending, currentUser, session, docs,
                   recording, mediaRecorderRef, appAcquiring>>

\* stop() up to the first await inside onStopRecording: disconnect() of the
\* service in serviceRef with its onDisconnect, setIsRecording(false),
\* stopRecording() up to its await
StopClick ==
    /\ Mounted(activeStep, session)
    /\ isRecording
    /\ svc' = IF serviceRef = 0 THEN svc
              ELSE [svc EXCEPT ![serviceRef] = disconnect(@)]
    /\ isRecording' = FALSE
    /\ stopPending' = stopPending + 1
    /\ mediaRecorderRef' = FALSE
    /\ recording' = FALSE
    /\ recStopping' = IF mediaRecorderRef THEN recStopping + 1 ELSE recStopping
    /\ afterStop' = "stopped"
    /\ stopped' = stopped + 1
    /\ UNCHANGED <<accVars, uiVars, txtVars, actVars, ragVars, audioBlob, diarizedTranscript,
                   finalizing, persisted, nsvc, serviceRef, currentUser, session,
                   docs, transcriptNonEmpty, activeStep, appAcquiring>>

\* recorder.onstop of a MediaRecorder stopped by stopRecording: setAudioBlob,
\* and stopRecording resolves
MediaRecorderOnStop ==
    /\ recStopping > 0
    /\ recStopping' = recStopping - 1
    /\ audioBlob' = TRUE
    /\ UNCHANGED <<accVars, uiVars, txtVars, actVars, ragVars, diarizedTranscript, finalizing,
                   histVars, svcVars, recVars, appVars>>

\* onStopRecording after stopRecording resolved: uploadAudio (it clears
\* sessionError when there is a blob), persistFinalTranscript, resolved or
\* rejected, setActiveStep('finalize')
StopFinish(ok) ==
    /\ stopPending > recStopping
    /\ stopPending' = stopPending - 1
    /\ persisted' = persisted + 1
    /\ sessionError' = IF ~ok THEN "Failed to persist final transcript"
                       ELSE IF audioBlob THEN "null" ELSE sessionError
    /\ activeStep' = "finalize"
    /\ Render("finalize", session, isRecording, serviceRef, svc)
    /\ UNCHANGED actionOutput
    /\ UNCHANGED <<accVars, txtVars, actVars, ragVars, finVars, afterStop, stopped,
                   nsvc, currentUser, session, docs,
                   transcriptNonEmpty, recording, mediaRecorderRef, appAcquiring>>

\* what interviewAPI.finalize answers in data.diarized_transcript
DiarizedResults == {Undefined, JsStr(<<"d">>)}

\* handleLogout: the user and the session are cleared, with the transcript,
\* the action and the Q&A state
HandleLogout ==
    /\ currentUser
    /\ currentUser' = FALSE
    /\ session' = FALSE
    /\ docs' = FALSE
    /\ transcriptNonEmpty' = FALSE
    /\ actionOutput' = <<>>
    /\ actionError' = "null"
    /\ actionCooldownUntil' = 0
    /\ isCoolingDown' = FALSE
    /\ ragAnswer' = <<>>
    /\ ragCitations' = <<>>
    /\ sources' = <<>>
    /\ UNCHANGED ragResponse
    /\ LET step == Effect(activeStep, hasFinalized, FALSE, FALSE) IN
         /\ activeStep' = step
         /\ Render(step, FALSE, isRecording, serviceRef, svc)
    /\ UNCHANGED <<accVars, txtVars, finVars, histVars, nsvc, stopPending,
                   recording, mediaRecorderRef, appAcquiring, sessionError,
                   now, actionLoading, outstanding, resetTimers, invocations>>

\* the Exit session button: the session state is reset
ExitSession ==
    /\ currentUser /\ session
    /\ session' = FALSE
    /\ docs' = FALSE
    /\ transcriptNonEmpty' = FALSE
    /\ recording' = FALSE
    /\ audioBlob' = FALSE
    /\ diarizedTranscript' = <<>>
    /\ actionError' = "null"
    /\ actionCooldownUntil' = 0
    /\ isCoolingDown' = FALSE
    /\ ragAnswer' = <<>>
    /\ ragCitations' = <<>>
    /\ sources' = <<>>
    /\ UNCHANGED ragResponse
    /\ LET step == Effect("setup", FALSE, FALSE, FALSE) IN
         /\ activeStep' = step
         /\ Render(step, FALSE, isRecording, serviceRef, svc)
    /\ sessionError' = "null"
    /\ actionOutput' = <<>>
    /\ UNCHANGED <<accVars, txtVars, histVars, nsvc, stopPending, currentUser,
                   mediaRecorderRef, appAcquiring, recStopping, finalizing,
                   now, actionLoading, outstanding, resetTimers, invocations>>

\* the Generate button of the FinalizePanel: finalizeInterview up to its await
FinalizeClick ==
    /\ currentUser /\ session /\ activeStep = "finalize"
    /\ ~(finalizing \/ ~audioBlob)
    /\ finalizing' = TRUE
    /\ sessionError' = "null"
    /\ UNCHANGED actionOutput
    /\ UNCHANGED <<accVars, txtVars, actVars, ragVars, recStopping, audioBlob,
                   diarizedTranscript, histVars, svcVars, recVars, appVars>>

\* interviewAPI.finalize resolved: setDiarizedTranscript, then the
\* auto-advance effect
FinalizeOk(r) ==
    /\ finalizing
    /\ finalizing' = FALSE
    /\ diarizedTranscript' = OrEmpty(r)
    /\ LET step == Effect(activeStep, OrEmpty(r) # <<>>, hasRecordingData, hasDocsReady) IN
         /\ activeStep' = step
         /\ Render(step, session, isRecording, serviceRef, svc)
    /\ UNCHANGED <<accVars, uiVars, txtVars, actVars, ragVars, recStopping, audioBlob, histVars,
                   nsvc, stopPending, currentUser, session, docs,
                   transcriptNonEmpty, recording, mediaRecorderRef, appAcquiring>>

\* interviewAPI.finalize rejected
FinalizeFail ==
    /\ finalizing
    /\ finalizing' = FALSE
    /\ sessionError' = "Finalize failed"
    /\ UNCHANGED actionOutput
    /\ UNCHANGED <<accVars, txtVars, actVars, ragVars, recStopping, audioBlob,
                   diarizedTranscript, histVars, svcVars, recVars, appVars>>

\* a caller invokes connect() on the instance
ApiConnect(i) ==
    /\ svc[i].step = "idle"
    /\ svc' = [svc EXCEPT ![i] = connect(@)]
    /\ LifeUnchanged

\* a caller invokes disconnect() on the instance, in whatever state it is
ApiDisconnect(i) ==
    /\ svc[i].step # "none"
    /\ svc[i].discCalls < MaxDisconnects
    /\ svc' = [svc EXCEPT ![i] = disconnect(@)]
    /\ isRecording' = SetIsRecordingFrom(svc, i, FALSE)
    /\ UNCHANGED <<accVars, uiVars, txtVars, actVars, ragVars, finVars, histVars, nsvc, serviceRef, stopPending, appVars>>

\* the settling of connect()'s awaits and the data channel's events
ServiceStep(i) ==
    \/ CredOk(i)
    \/ CredNoToken(i)
    \/ CredFail(i)
    \/ GumOk(i)
    \/ GumFail(i)
    \/ OfferOk(i)
    \/ OfferFail(i)
    \/ LocalOk(i)
    \/ LocalFail(i)
    \/ \E o \in PostOutcomes : Post1(i, o)
    \/ \E o \in PostOutcomes : Post2(i, o)
    \/ RemoteOk(i)
    \/ RemoteFail(i)
    \/ DcOpen(i)
    \/ DcRemoteClose(i)
    \/ DcCloseEvent(i)

\* every step of the App, the recorder and the services but the start click
AppStep ==
    \/ HandleLogin
    \/ HandleCreateSession
    \/ HandleUploadBoth
    \/ \E id \in {"setup", "record", "finalize"} : SelectStep(id)
    \/ AppMicGranted
    \/ AppMicDenied
    \/ \E i \in Services : ServiceStep(i)
    \/ \E i \in Services : TranscriptEvent(i)
    \/ StopClick
    \/ MediaRecorderOnStop
    \/ \E ok \in BOOLEAN : StopFinish(ok)
    \/ ExitSession
    \/ HandleLogout
    \/ FinalizeClick
    \/ \E r \in DiarizedResults : FinalizeOk(r)
    \/ FinalizeFail

Next == StartClick \/ AppStep

NextFlow == FlowStartClick \/ AppStep

NextSvc ==
    \/ \E i \in Services : ApiConnect(i)
    \/ \E i \in Services : ApiDisconnect(i)
    \/ \E i \in Services : ServiceStep(i)

SpecSvc == InitSvc /\ [][NextSvc]_vars

Spec == Init /\ [][Next]_vars

SpecFlow == Init /\ [][NextFlow]_vars

----------------------------------------------------------------------------
(* SpecResume: a recording started in a session that has a transcript.     *)
(* start() has constructed a new service instance, whose accumulator the   *)
(* frames act on; its onTranscript callback reaches the App through        *)
(* onTranscriptUpdate.                                                     *)

\* the live transcript of the session when the recording starts
SavedTranscripts == {<<>>, <<"a">>, <<"a", NL, "b">>}

InitResume ==
    /\ InitAcc /\ InitFin /\ InitUi /\ InitAction /\ InitRag
    /\ realtimeTranscript \in SavedTranscripts
    /\ atStart = realtimeTranscript
    /\ transcriptNonEmpty = (realtimeTranscript # <<>>)
    /\ svc = [i \in 1..MaxServices |-> NoService]
    /\ nsvc = 0
    /\ isRecording = FALSE
    /\ serviceRef = 0
    /\ stopPending = 0
    /\ currentUser = TRUE
    /\ session = TRUE
    /\ docs = TRUE
    /\ activeStep = "record"
    /\ recording = FALSE
    /\ mediaRecorderRef = FALSE
    /\ appAcquiring = 0

\* a frame of the recording: for the onTranscript(text) it delivers, the
\* recorder calls onTranscriptUpdate(text), the App setRealtimeTranscript(text)
OnMessageRecording(f) ==
    /\ Handled(f)
    /\ LET r == onmessage(AccState, f)
           text == IF Len(r.emitted) > Len(emitted)
                   THEN r.emitted[Len(r.emitted)].text
                   ELSE realtimeTranscript
       IN
         /\ realtimeTranscript' = text
         /\ transcriptNonEmpty' = (text # <<>>)
         /\ activeStep' = Effect(activeStep, hasFinalized, text # <<>>, hasDocsReady)
    /\ UNCHANGED <<svcVars, recVars, finVars, histVars, actVars, ragVars, uiVars,
                   atStart, currentUser, session, docs, recording,
                   mediaRecorderRef, appAcquiring>>

NextResume == \E f \in Frames : OnMessageRecording(f)

SpecResume == InitResume /\ [][NextResume]_vars

----------------------------------------------------------------------------
(* SpecAct: executeAction, its cooldown and the ActionButtonsPanel          *)
(*                                                                         *)
(* Times are in milliseconds; the clock advances by half a cooldown        *)
(* window. A reset timer fires at its due time or later. The panel's       *)
(* isCoolingDown is computed when the App renders, that is after every     *)
(* change of its state, and not when the clock advances.                   *)

ACTION_COOLDOWN_MS == 2000

HalfWindow == ACTION_COOLDOWN_MS \div 2

\* a session restored after a reload, with its documents, on the Record
\* stage; the transcript the backend holds is empty or not
InitAct ==
    /\ InitAcc /\ InitFin /\ InitUi /\ InitTxt /\ InitAction /\ InitRag
    /\ svc = [i \in 1..MaxServices |-> NoService]
    /\ nsvc = 0
    /\ isRecording = FALSE
    /\ serviceRef = 0
    /\ stopPending = 0
    /\ currentUser = TRUE
    /\ session = TRUE
    /\ docs = TRUE
    /\ transcriptNonEmpty \in BOOLEAN
    /\ activeStep = "record"
    /\ recording = FALSE
    /\ mediaRecorderRef = FALSE
    /\ appAcquiring = 0

executeAction_NoTranscriptCheck(sess, nonEmpty, t, until) ==
    IF ~sess THEN "return"
    ELSE IF t < until THEN "Cooling down."
    ELSE "accepted"

\* executeAction up to its try block: how the call ends
executeAction(sess, nonEmpty, t, until) ==
    IF ~sess THEN "return"
    ELSE IF ~nonEmpty THEN "Transcript is empty."
    ELSE IF t < until THEN "Cooling down."
    ELSE "accepted"

ButtonDisabled_CooldownOnly == isCoolingDown

\* disabled of the panel's buttons, as last rendered
ButtonDisabled == actionLoading \/ isCoolingDown

\* what the App's other variables do in the steps of the action specification
ActUnchanged ==
    UNCHANGED <<accVars, txtVars, sessionError, ragVars, finVars, histVars, svcVars, recVars,
                currentUser, session, docs, activeStep, recording,
                mediaRecorderRef, appAcquiring>>

\* a click on an enabled action button: executeAction up to its await
ActionClick ==
    /\ currentUser /\ session /\ activeStep = "record"
    /\ ~ButtonDisabled
    /\ Len(invocations) < MaxInvocations
    /\ LET out == executeAction(session, transcriptNonEmpty, now, actionCooldownUntil)
           accepted == out = "accepted"
       IN
         /\ actionLoading' = IF accepted THEN TRUE ELSE actionLoading
         /\ actionError' = IF accepted THEN "null"
                           ELSE IF out = "return" THEN actionError ELSE out
         /\ actionCooldownUntil' = IF accepted THEN now + ACTION_COOLDOWN_MS
                                   ELSE actionCooldownUntil
         /\ resetTimers' = IF accepted THEN Append(resetTimers, now + ACTION_COOLDOWN_MS)
                           ELSE resetTimers
         /\ outstanding' = IF accepted THEN outstanding + 1 ELSE outstanding
         /\ isCoolingDown' = (now < actionCooldownUntil')
         /\ invocations' = Append(invocations,
                [at |-> now, nonEmpty |-> transcriptNonEmpty, outcome |-> out,
                 until |-> actionCooldownUntil, untilAfter |-> actionCooldownUntil',
                 called |-> outstanding' # outstanding, sameTick |-> FALSE])
    /\ UNCHANGED <<now, transcriptNonEmpty, actionOutput>>
    /\ ActUnchanged

\* executeAction called twice in one tick, through the onExecuteAction of
\* one render: both calls run the closure of that render, before React
\* renders again, and read the actionCooldownUntil (line 94) it captured;
\* the state updates of the first call are queued and not visible to the
\* second
ActionClickTwice ==
    /\ currentUser /\ session /\ activeStep = "record"
    /\ ~ButtonDisabled
    /\ Len(invocations) + 2 <= MaxInvocations
    /\ LET closureUntil == actionCooldownUntil
           out1 == executeAction(session, transcriptNonEmpty, now, closureUntil)
           out2 == executeAction(session, transcriptNonEmpty, now, closureUntil)
           n == (IF out1 = "accepted" THEN 1 ELSE 0) + (IF out2 = "accepted" THEN 1 ELSE 0)
           expiresAt == now + ACTION_COOLDOWN_MS
           Rec(out, u, late) ==
               [at |-> now, nonEmpty |-> transcriptNonEmpty, outcome |-> out,
                until |-> u, untilAfter |-> IF out = "accepted" THEN expiresAt ELSE u,
                called |-> out = "accepted", sameTick |-> late]
       IN
         /\ actionLoading' = IF n > 0 THEN TRUE ELSE actionLoading
         /\ actionError' = IF out2 = "accepted" THEN "null"
                           ELSE IF out2 = "return" THEN actionError ELSE out2
         /\ actionCooldownUntil' = IF n > 0 THEN expiresAt ELSE actionCooldownUntil
         /\ resetTimers' = resetTimers \o [k \in 1..n |-> expiresAt]
         /\ outstanding' = outstanding + n
         /\ isCoolingDown' = (now < actionCooldownUntil')
         /\ invocations' = invocations \o
                <<Rec(out1, closureUntil, FALSE), Rec(out2, closureUntil, TRUE)>>
    /\ UNCHANGED <<now, transcriptNonEmpty, actionOutput>>
    /\ ActUnchanged

\* what interviewAPI.executeAction answers in data.output
ActionOutputs == {Undefined, JsStr(<<"o">>)}

\* interviewAPI.executeAction settled, resolved with output r or rejected:
\* setActionOutput or the catch's setActionError, then the finally block
\* clears actionLoading
ActionSettled(ok, r) ==
    /\ outstanding > 0
    /\ outstanding' = outstanding - 1
    /\ actionLoading' = FALSE
    /\ actionError' = IF ok THEN actionError ELSE "Action failed"
    /\ actionOutput' = IF ok THEN OrEmpty(r) ELSE actionOutput
    /\ isCoolingDown' = (now < actionCooldownUntil)
    /\ UNCHANGED <<now, actionCooldownUntil, resetTimers, invocations, transcriptNonEmpty>>
    /\ ActUnchanged

\* the oldest pending reset timer fires, at its due time or later:
\* setActionCooldownUntil(0)
ResetTimerFires ==
    /\ resetTimers # <<>>
    /\ Head(resetTimers) <= now
    /\ resetTimers' = Tail(resetTimers)
    /\ actionCooldownUntil' = 0
    /\ isCoolingDown' = FALSE
    /\ UNCHANGED <<now, actionLoading, actionError, outstanding, invocations,
                   transcriptNonEmpty, actionOutput>>
    /\ ActUnchanged

\* the session effect after setSession with a refreshed session:
\* realtimeTranscript becomes the transcript the backend holds
SessionRefreshed(nonEmpty) ==
    /\ currentUser /\ session
    /\ transcriptNonEmpty' = nonEmpty
    /\ activeStep' = Effect(activeStep, hasFinalized, nonEmpty, hasDocsReady)
    /\ isCoolingDown' = (now < actionCooldownUntil)
    /\ UNCHANGED <<accVars, uiVars, txtVars, ragVars, finVars, histVars, svcVars, recVars,
                   currentUser, session, docs, recording, mediaRecorderRef,
                   appAcquiring, now, actionCooldownUntil, actionLoading,
                   actionError, outstanding, resetTimers, invocations>>

\* time passes
Tick ==
    /\ now < MaxTicks * HalfWindow
    /\ now' = now + HalfWindow
    /\ UNCHANGED <<actionCooldownUntil, actionLoading, actionError, isCoolingDown,
                   outstanding, resetTimers, invocations, transcriptNonEmpty,
                   actionOutput>>
    /\ ActUnchanged

NextAct ==
    \/ ActionClick
    \/ \E ok \in BOOLEAN, r \in ActionOutputs : ActionSettled(ok, r)
    \/ ResetTimerFires
    \/ \E b \in BOOLEAN : SessionRefreshed(b)
    \/ Tick

SpecAct == InitAct /\ [][NextAct]_vars

\* SpecTick: SpecAct with callers that invoke executeAction twice in a tick
NextTick == NextAct \/ ActionClickTwice

SpecTick == InitAct /\ [][NextTick]_vars

----------------------------------------------------------------------------
(* SpecCite: the answer of a chat request and the Sources list of the      *)
(* RagPanel                                                                *)
(*                                                                         *)
(* An answer is a sequence of characters; a citation is its index field,   *)
(* absent or a number. The Sources list is the sequence of the entries     *)
(* shown: pos is the citation's position in ragCitations, label the        *)
(* number in its [label].                                                  *)

Digits == {"1", "2"}
AnswerChars == {"[", "]", "x"} \cup Digits
Answers == UNION {[1..n -> AnswerChars] : n \in 0..MaxAnswerLen}

NoIndex == [defined |-> FALSE, num |-> 0]
Index(n) == [defined |-> TRUE, num |-> n]
IndexValues == {NoIndex, Index(1), Index(2)}
CitationLists == UNION {[1..n -> [index : IndexValues]] : n \in 0..MaxCitations}

\* Number(match[1]) of a run of digits
RECURSIVE Number(_)
Number(ds) ==
    IF ds = <<>> THEN 0
    ELSE 10 * Number(SubSeq(ds, 1, Len(ds) - 1))
         + (IF ds[Len(ds)] = "1" THEN 1 ELSE 2)

\* the end of the longest run of digits that starts at position i
RECURSIVE DigitsEnd(_, _)
DigitsEnd(a, i) ==
    IF i <= Len(a) /\ a[i] \in Digits THEN DigitsEnd(a, i + 1) ELSE i - 1

\* the loop of regex.exec over /\[(\d+)\]/g from position i: the numbers
\* added to cited
RECURSIVE Cited(_, _)
Cited(a, i) ==
    IF i > Len(a) THEN {}
    ELSE IF a[i] = "["
         THEN LET e == DigitsEnd(a, i + 1) IN
              IF e >= i + 1 /\ e + 1 <= Len(a) /\ a[e + 1] = "]"
              THEN {Number(SubSeq(a, i + 1, e))} \cup Cited(a, e + 2)
              ELSE Cited(a, i + 1)
         ELSE Cited(a, i + 1)

displayIndex_Position(c, k) == k

\* c.index ?? idx + 1, for the citation at position k
displayIndex(c, k) == IF c.index.defined THEN c.index.num ELSE k

\* the entries the citations block renders
Reconcile(answer, citations) ==
    LET cited == Cited(answer, 1)
        withIndex == [k \in 1..Len(citations) |->
                        [pos |-> k, label |-> displayIndex(citations[k], k)]]
    IN IF cited # {}
       THEN SelectSeq(withIndex, LAMBDA c : c.label \in cited)
       ELSE withIndex

\* a chat request is in flight; its response is any answer with any citations
InitCite ==
    /\ InitAcc /\ InitFin /\ InitUi /\ InitTxt /\ InitAction
    /\ ragResponse \in [pending : {TRUE},
                         answer : {Undefined} \cup {JsStr(a) : a \in Answers},
                         citations : CitationLists]
    /\ ragAnswer = <<>>
    /\ ragCitations = <<>>
    /\ sources = <<>>
    /\ svc = [i \in 1..MaxServices |-> NoService]
    /\ nsvc = 0
    /\ isRecording = FALSE
    /\ serviceRef = 0
    /\ stopPending = 0
    /\ currentUser = TRUE
    /\ session = TRUE
    /\ docs = TRUE
    /\ transcriptNonEmpty = TRUE
    /\ activeStep = "finalize"
    /\ recording = FALSE
    /\ mediaRecorderRef = FALSE
    /\ appAcquiring = 0

\* handleRagAsk after interviewAPI.chat resolved: setRagAnswer,
\* setRagCitations, and the RagPanel renders the Sources list
RagResolved ==
    /\ ragResponse.pending
    /\ ragResponse' = NoResponse
    /\ ragAnswer' = OrEmpty(ragResponse.answer)
    /\ ragCitations' = ragResponse.citations
    /\ sources' = Reconcile(ragAnswer', ragCitations')
    /\ UNCHANGED <<accVars, uiVars, txtVars, actVars, finVars, histVars, svcVars, recVars, appVars>>

NextCite == RagResolved

SpecCite == InitCite /\ [][NextCite]_vars

----------------------------------------------------------------------------
(* Properties of connect() and disconnect() (SpecSvc) and of the         *)
(* recorder's sessions (Spec)                                             *)

\* the instance holds a live resource: an open peer connection, a data
\* channel that is connecting or open, a running microphone track
Live(s) ==
    \/ s.pcState = "open"
    \/ s.dcState \in {"connecting", "open"}
    \/ s.micState = "live"

\* C4: when connect() has rejected, the microphone tracks are stopped and
\* the data channel and the peer connection are closed.
C4_NoLeakOnFailure ==
    \A i \in Services : svc[i].step = "rejected" => ~Live(svc[i])

\* C5: when disconnect() was called while connect() was in progress and
\* connect() has settled, no microphone track of the instance is running.
C5_NoTrackAfterEarlyDisconnect ==
    \A i \in Services :
        (svc[i].midDisc /\ svc[i].step \in SettledSteps) => svc[i].micState # "live"

\* C6: when the credential request failed, connect() has rejected, the
\* error went through onError, and no peer connection, data channel or
\* microphone stream was created.
C6_CredentialFailureAllocatesNothing ==
    \A i \in Services :
        svc[i].credFailed
        => /\ svc[i].step = "rejected"
           /\ svc[i].errors = 1
           /\ svc[i].pcState = "none" /\ ~svc[i].peerConnection
           /\ svc[i].dcState = "none" /\ ~svc[i].dataChannel
           /\ svc[i].micState = "none" /\ ~svc[i].micStream

\* the credential request failed and connect() has rejected
C6_Witness ==
    /\ svc[1].credFailed
    /\ svc[1].step = "rejected"
    /\ svc[1].discCalls = 0

\* the steps of log occur in the order of the sequence order
InOrder(tlog, order) ==
    \A j, k \in 1..Len(tlog) :
        j < k => \E a, b \in 1..Len(order) :
                    a < b /\ order[a] = tlog[j] /\ order[b] = tlog[k]

\* C7 as stated: every disconnect() stops the microphone tracks, then
\* closes the event channel, then closes the transport.
C7_TracksChannelTransport ==
    \A i \in Services : InOrder(svc[i].teardown, <<"tracks", "channel", "transport">>)

\* C7, amended: every disconnect() closes the event channel, then closes the
\* transport, then stops the microphone tracks, each for the field that is
\* set when it is called.
C7_ChannelTransportTracks ==
    \A i \in Services : InOrder(svc[i].teardown, <<"channel", "transport", "tracks">>)

\* a disconnect() that found channel, transport and microphone
C7_Witness ==
    svc[1].teardown = <<"channel", "transport", "tracks">>

\* what a caller can observe of an instance
Observable(s) ==
    <<s.step, s.clientToken, s.peerConnection, s.dataChannel, s.micStream,
      s.pcState, s.dcState, s.micState>>

\* C8: in every state of an instance, disconnect() leaves the channel,
\* transport and microphone fields cleared and what they referred to closed
\* or stopped, and a second disconnect() changes nothing more.
C8_DisconnectIdempotent ==
    \A i \in Services :
        svc[i].step # "none" =>
            LET d1 == disconnect(svc[i])
                d2 == disconnect(d1) IN
            /\ ~d1.dataChannel /\ ~d1.peerConnection /\ ~d1.micStream
            /\ (svc[i].dataChannel => d1.dcState \notin {"connecting", "open"})
            /\ (svc[i].peerConnection => d1.pcState = "closed")
            /\ (svc[i].micStream => d1.micState = "stopped")
            /\ Observable(d2) = Observable(d1)

\* a second disconnect() has run on a session the first one closed
C8_Witness ==
    /\ svc[1].discCalls = 2
    /\ svc[1].teardown = <<>>
    /\ svc[1].step = "resolved"
    /\ svc[1].micState = "stopped"
    /\ svc[1].pcState = "closed"

\* the postSdp call returned '': the attempt was rejected
Rejected(post) == post.outcome = "empty"

\* C9: the offer is POSTed at most twice, the second time with the beta
\* header and exactly when the first attempt was rejected; after a second
\* rejection connect() rejects and no remote answer is applied.
C9_RetryOnceThenGiveUp ==
    \A i \in Services :
        LET p == svc[i].posts IN
        /\ Len(p) <= 2
        /\ (Len(p) >= 1 => ~p[1].beta)
        /\ (Len(p) = 2 => p[2].beta /\ Rejected(p[1]))
        /\ (Len(p) = 1 /\ Rejected(p[1]) => svc[i].step = "post2")
        /\ (Len(p) = 2 /\ Rejected(p[2])
            => svc[i].remoteArg = "none" /\ svc[i].step = "rejected")

\* C10: at most one service instance holds live resources.
C10_SingleLiveSession ==
    Cardinality({i \in Services : Live(svc[i])}) <= 1

\* the negotiation steps in the order of the claim, with one or two SDP POSTs
NegotiationOrder(posts) ==
    <<"credential", "transport", "channel", "microphone", "tracks", "offer",
      "setLocalDescription">> \o [k \in 1..posts |-> "post"]
      \o <<"setRemoteDescription">>

\* the step whose await connect() is suspended at
AwaitedStep(step) ==
    CASE step = "cred" -> "credential"
      [] step = "gum" -> "microphone"
      [] step = "offer" -> "offer"
      [] step = "local" -> "setLocalDescription"
      [] step \in {"post1", "post2"} -> "post"
      [] step = "remote" -> "setRemoteDescription"

\* C24: in every run of connect() the negotiation steps occur in the order
\* credential, transport and channel, microphone and tracks, offer,
\* setLocalDescription, SDP POST, setRemoteDescription, each begun when the
\* previous one has resolved; the channel exists and the tracks are
\* attached before the offer is created.
C24_NegotiationOrder ==
    \A i \in Created :
        LET t == svc[i].trace IN
        /\ \E posts \in 1..2 :
              \E n \in 0..Len(NegotiationOrder(posts)) :
                  t = SubSeq(NegotiationOrder(posts), 1, n)
        /\ svc[i].step \in AwaitSteps => t[Len(t)] = AwaitedStep(svc[i].step)
        /\ (\E k \in 1..Len(t) : t[k] = "offer") => svc[i].tracksAttached

\* a connect() that resolved after a second SDP POST
C24_Witness ==
    \E i \in Created :
        /\ svc[i].step = "resolved"
        /\ svc[i].trace = NegotiationOrder(2)

\* C25: when the channel of an open session closes without an explicit
\* stop, the session is destroyed: its microphone tracks are stopped and its
\* transport is closed.
C25_ClosedSessionDestroyed ==
    \A i \in Created :
        (svc[i].dcState = "closed" /\ svc[i].discCalls = 0)
          => svc[i].micState # "live" /\ svc[i].pcState # "open"

\* C26: a service instance delivers onDisconnect at most once.
C26_DisconnectOnce ==
    \A i \in Created : svc[i].disconnects <= 1

----------------------------------------------------------------------------
(* Properties of stopping a recording (Spec) *)

\* C11: once stop() has invoked onStopRecording, after disconnect()
\* resolved, no transcript callback is delivered any more until a recording
\* is started again.
C11_NoCallbackAfterStop == afterStop # "late"

\* C12: every recording that stopped, by a stop click or by a close event of
\* the channel, has had persistFinalTranscript called exactly once, or has
\* its onStopRecording still running.
C12_PersistOncePerStop == stopped = persisted + stopPending

\* a connect() started by the mounted recorder is in progress
Connecting == \E i \in Created : svc[i].attached /\ svc[i].step \in AwaitSteps

\* C28: whenever the recorder is neither recording nor connecting, the App's
\* recording flag is false and its MediaRecorder with its microphone stream
\* is stopped, also after a failed connect() and after a channel closure
\* the user did not initiate.
C28_AppFollowsRecorder ==
    (Mounted(activeStep, session) /\ ~isRecording /\ ~Connecting /\ appAcquiring = 0)
      => ~recording /\ ~mediaRecorderRef

----------------------------------------------------------------------------
(* Properties of the stage flow (SpecFlow, Spec) *)

\* at least one JD and at least one CV document in the session
documentsComplete == session /\ docs

\* the stage the three inputs determine
DerivedStage ==
    IF diarizedTranscript # <<>> THEN "finalize"
    ELSE IF transcriptNonEmpty \/ documentsComplete THEN "record"
    ELSE "setup"

\* C13: after any change of documentsComplete, transcriptNonEmpty or
\* diarizedTranscriptPresent the active stage is the derived one: Finalize
\* if the diarized transcript is non-empty, otherwise Record if the
\* transcript is non-empty or the documents are complete, otherwise Setup.
C13_StageRecomputed ==
    [][<<documentsComplete, transcriptNonEmpty, diarizedTranscript # <<>> >>'
         # <<documentsComplete, transcriptNonEmpty, diarizedTranscript # <<>> >>
       => activeStep' = DerivedStage']_vars

\* a finalize result arrived for a session with documents and a transcript,
\* and the stage is Finalize
C13_Witness ==
    /\ diarizedTranscript # <<>>
    /\ transcriptNonEmpty /\ docs /\ session
    /\ ~finalizing
    /\ activeStep = "finalize"

\* C14: the visible stage is never a stage whose entry of the step bar is
\* disabled; in particular Finalize is not visible while the transcript and
\* the diarized transcript are both empty.
C14_StageNotAhead == currentUser => StepStatus(activeStep) # "upcoming"

\* C15: while the session lacks a JD or a CV the Record entry of the step
\* bar is disabled and Record is not the visible stage.
C15_RecordLocked ==
    currentUser /\ session /\ ~docs
      => StepStatus("record") = "upcoming" /\ activeStep # "record"

\* the derivation predicate of a stage, and the stages after it
StagePredicate(id) ==
    IF id = "setup" THEN TRUE
    ELSE IF id = "record" THEN transcriptNonEmpty \/ documentsComplete
    ELSE diarizedTranscript # <<>>

LaterStages(id) ==
    IF id = "setup" THEN {"record", "finalize"}
    ELSE IF id = "record" THEN {"finalize"}
    ELSE {}

\* a selector of the rendered step bar is disabled
SelectorDisabled(id) == StepStatus(id) = "upcoming"

\* C27 as stated: a stage selector is disabled if and only if the stage's
\* derivation predicate and the predicates of all later stages are false.
C27_DisabledByDerivation ==
    currentUser =>
      \A id \in {"setup", "record", "finalize"} :
          SelectorDisabled(id)
            <=> (~StagePredicate(id) /\ \A l \in LaterStages(id) : ~StagePredicate(l))

\* C27, amended: Setup is always selectable; the Record selector is
\* disabled if and only if the transcript is empty and the documents are
\* incomplete; the Finalize selector is disabled if and only if the
\* diarized transcript and the live transcript are both empty.
C27_DisabledByOwnInputs ==
    currentUser =>
      /\ ~SelectorDisabled("setup")
      /\ SelectorDisabled("record") <=> (~transcriptNonEmpty /\ ~documentsComplete)
      /\ SelectorDisabled("finalize")
            <=> (diarizedTranscript = <<>> /\ ~transcriptNonEmpty)

\* a recorded transcript that is not finalized yet: the Finalize selector is
\* enabled although the Finalize predicate is false
C27_Witness ==
    /\ currentUser /\ session
    /\ transcriptNonEmpty /\ diarizedTranscript = <<>>
    /\ ~SelectorDisabled("finalize")

\* C20: within a session a non-empty diarized transcript is never changed
\* again, neither by a repeated finalize nor by a finalize that returns an
\* empty result.
C20_DiarizedSetOnce ==
    [][session /\ session' /\ diarizedTranscript # <<>>
       => diarizedTranscript' = diarizedTranscript]_vars

\* the panel that renders the error string is on screen
SessionErrorShown == currentUser /\ activeStep = "setup"
ActionErrorShown == currentUser /\ session /\ activeStep = "record"

\* a step in which a failed collaborator call sets its error string
SessionCallFailed == sessionError' # sessionError /\ sessionError' # "null"
ActionCallFailed ==
    outstanding' < outstanding /\ actionError' # actionError /\ actionError' # "null"

\* C21: when a collaborator call fails, an error string the user sees is
\* set and the in-memory results keep their values: the live transcript,
\* the diarized transcript, the last action output, the last answer and its
\* citations.
C21_FailureSurfaced ==
    [][/\ SessionCallFailed
            => /\ SessionErrorShown'
               /\ UNCHANGED <<transcriptNonEmpty, diarizedTranscript, actionOutput,
                              ragAnswer, ragCitations>>
       /\ ActionCallFailed
            => /\ ActionErrorShown'
               /\ UNCHANGED <<transcriptNonEmpty, diarizedTranscript, actionOutput,
                              ragAnswer, ragCitations>>]_vars

\* C30: whenever no session is active, the session-derived state is empty:
\* realtimeTranscript, diarizedTranscript, actionOutput, ragAnswer and
\* ragCitations.
C30_NoSessionNoState ==
    ~session =>
      /\ ~transcriptNonEmpty
      /\ diarizedTranscript = <<>>
      /\ actionOutput = <<>>
      /\ ragAnswer = <<>>
      /\ ragCitations = <<>>

----------------------------------------------------------------------------
(* Properties of executeAction (SpecAct) *)

Invocations == 1..Len(invocations)

LastAcceptedBefore(k) ==
    LET S == {j \in 1..(k - 1) : invocations[j].outcome = "accepted"} IN
    IF S = {} THEN 0 ELSE CHOOSE j \in S : \A i \in S : i <= j

\* C17: with a non-empty transcript, a call less than 2000 ms after the
\* last accepted call is rejected with 'Cooling down.' and makes no backend
\* call; a call 2000 ms or more after it is accepted.
C17_CooldownWindow ==
    \A k \in Invocations :
        LET v == invocations[k]
            j == LastAcceptedBefore(k)
        IN
        v.nonEmpty /\ j # 0
          => IF v.at < invocations[j].at + ACTION_COOLDOWN_MS
             THEN v.outcome = "Cooling down." /\ ~v.called
             ELSE v.outcome = "accepted"

\* C22: no call is accepted less than 2000 ms after the previously accepted
\* call, however late the reset timers fire: the timer of an earlier call
\* never clears the deadline of a later one.
C22_AcceptedApart ==
    \A k \in Invocations :
        LET j == LastAcceptedBefore(k) IN
        invocations[k].outcome = "accepted" /\ j # 0
          => invocations[k].at >= invocations[j].at + ACTION_COOLDOWN_MS

\* C23: of two calls with a non-empty transcript issued in the same tick,
\* the second before any re-render, the first is accepted and the second is
\* rejected with 'Cooling down.': it sees the deadline the first has set.
C23_SameTickRejected ==
    \A k \in Invocations :
        (k > 1 /\ invocations[k].sameTick /\ invocations[k].nonEmpty
               /\ invocations[k - 1].outcome = "accepted")
          => /\ invocations[k].outcome = "Cooling down."
             /\ ~invocations[k].called

\* C18: at most one interviewAPI.executeAction call is outstanding, also
\* when the call outlasts the cooldown window.
C18_OneOutstanding == outstanding <= 1

\* a call is still outstanding after its window has elapsed and its reset
\* timer has fired
C18_Witness ==
    /\ outstanding = 1
    /\ actionCooldownUntil = 0
    /\ resetTimers = <<>>
    /\ \E k \in Invocations :
          /\ invocations[k].outcome = "accepted"
          /\ now >= invocations[k].at + ACTION_COOLDOWN_MS

----------------------------------------------------------------------------
(* Properties of the Sources list (SpecCite) *)

\* the value of the decimal numeral ds
DecimalValue(ds) ==
    LET RECURSIVE Sum(_)
        Sum(k) == IF k = 0 THEN 0
                  ELSE Sum(k - 1) + (IF ds[k] = "1" THEN 1 ELSE 2) * 10 ^ (Len(ds) - k)
    IN Sum(Len(ds))

\* R: the integers n that appear as a marker [n] in the answer
Markers(a) ==
    {DecimalValue(SubSeq(a, i + 1, j - 1)) :
       <<i, j>> \in {p \in (1..Len(a)) \X (1..Len(a)) :
                      /\ p[1] + 1 < p[2]
                      /\ a[p[1]] = "[" /\ a[p[2]] = "]"
                      /\ \A k \in (p[1] + 1)..(p[2] - 1) : a[k] \in Digits}}

\* the citation's explicit index if present, else its 1-based position
RefDisplayIndex(cs, k) == IF cs[k].index = NoIndex THEN k ELSE cs[k].index.num

\* the positions in P in increasing order, each with its display index
RECURSIVE InOrderOf(_, _)
InOrderOf(P, cs) ==
    IF P = {} THEN <<>>
    ELSE LET k == CHOOSE m \in P : \A n \in P : m <= n IN
         <<[pos |-> k, label |-> RefDisplayIndex(cs, k)]>> \o InOrderOf(P \ {k}, cs)

\* C19: the Sources list is the citations whose display index (explicit
\* index, else 1-based position) is in R, the set of the numbers in the
\* answer's [n] markers, in input order and labelled with the display
\* index; all citations when R is empty.
C19_SourcesReconciled ==
    LET R == Markers(ragAnswer)
        all == 1..Len(ragCitations)
    IN sources = InOrderOf(IF R # {}
                           THEN {k \in all : RefDisplayIndex(ragCitations, k) \in R}
                           ELSE all,
                           ragCitations)

\* the answer cites [1]; of two citations only the second, whose explicit
\* index is 1, is shown
C19_Witness ==
    /\ ~ragResponse.pending
    /\ Len(ragCitations) = 2
    /\ Markers(ragAnswer) = {1}
    /\ sources = <<[pos |-> 2, label |-> 1]>>

----------------------------------------------------------------------------
(* Properties of the message handler (SpecAcc) *)

\* The reference fold of the accumulator over a sequence of accepted events
RECURSIVE RefFold(_)
RefFold(evs) ==
    IF evs = <<>>
    THEN [finalText |-> <<>>, partialText |-> <<>>, emitted |-> <<>>]
    ELSE LET prev == RefFold(SubSeq(evs, 1, Len(evs) - 1))
             e == evs[Len(evs)] IN
         IF e.kind = "delta"
         THEN [finalText |-> prev.finalText,
               partialText |-> prev.partialText \o e.text,
               emitted |-> Append(prev.emitted,
                                  [text |-> prev.finalText \o prev.partialText \o e.text,
                                   isFinal |-> FALSE])]
         ELSE LET f == IF prev.finalText = <<>> THEN e.text
                       ELSE prev.finalText \o <<NL>> \o e.text IN
              [finalText |-> f, partialText |-> <<>>,
               emitted |-> Append(prev.emitted, [text |-> f, isFinal |-> TRUE])]

\* utterances joined in order by line breaks
RECURSIVE JoinLines(_)
JoinLines(us) ==
    IF us = <<>> THEN <<>>
    ELSE IF Len(us) = 1 THEN us[1]
    ELSE JoinLines(SubSeq(us, 1, Len(us) - 1)) \o <<NL>> \o us[Len(us)]

IsPrefix(s, t) == Len(s) <= Len(t) /\ SubSeq(t, 1, Len(s)) = s

\* C29: starting a recording in a session whose live transcript is
\* non-empty never discards it: the transcript present at start remains a
\* prefix of realtimeTranscript after every transcript event.
C29_StartTranscriptKept == IsPrefix(atStart, realtimeTranscript)

\* C1: for every sequence of accepted transcript events the accumulator and
\* the onTranscript emissions equal the reference fold of the events: a delta
\* appends to partialText and emits (finalText + partialText, false); a
\* completion appends the utterance to finalText on a new line (or sets it if
\* finalText was empty), clears partialText and emits (finalText, true).
C1_AccumulatorIsFold ==
    LET r == RefFold(log) IN
    /\ finalText = r.finalText
    /\ partialText = r.partialText
    /\ emitted = r.emitted

\* deltas followed by a completion, after an earlier completion
C1_Witness ==
    /\ Len(log) = 3
    /\ log[1].kind = "completion"
    /\ log[2].kind = "delta"
    /\ log[3].kind = "completion"
    /\ log[1].text # log[3].text

FinalEmissions == SelectSeq(emitted, LAMBDA e : e.isFinal)

C2_State ==
    /\ finalText = JoinLines(notified)
    /\ Len(FinalEmissions) = Len(notified)
    /\ \A k \in 1..Len(notified) :
          FinalEmissions[k].text = JoinLines(SubSeq(notified, 1, k))

\* C2: finalText is the onFinalUtterance notifications joined in order by
\* line breaks, the k-th final emission is the first k notifications joined,
\* and finalText only grows by appending.
C2_NotificationsReconstruct ==
    /\ [](C2_State)
    /\ [][IsPrefix(finalText, finalText')]_vars

\* two different utterances notified, with deltas in between
C2_Witness ==
    /\ Len(notified) = 2
    /\ notified[1] # notified[2]
    /\ Len(emitted) = 3

\* C3: a frame that is not a recognised delta/completion event with a
\* non-empty payload changes neither finalText nor partialText, triggers no
\* onTranscript, onFinalUtterance or onError callback, and the handler does
\* not throw.
C3_IgnoredFramesDropped ==
    [][ (lastClass' \in IgnoredClasses)
        => /\ UNCHANGED <<finalText, partialText, emitted, notified, errorsAcc>>
           /\ ~threw' ]_vars

\* an ignored frame arrived while the accumulator held text
C3_Witness ==
    /\ lastClass \in {"nonjson", "unknownType", "emptyDelta", "emptyCompletion"}
    /\ finalText # <<>>
    /\ partialText # <<>>

====
